---- MODULE Spec2Model ----
(***************************************************************************)
(* Model of the two adapters of the repository:                            *)
(*   src/ai_agent/lambda.py  lambda_handler  (the action dispatcher)       *)
(*   src/ai_agent/util.py    invoke_agent    (the agent invocation client) *)
(*                                                                         *)
(* A Python str is a sequence of symbols (Seq(STRING)); a literal of the   *)
(* source is one symbol, text that comes from an input is the input's own  *)
(* symbols, and + / format / f-strings are concatenation.  A dict is a     *)
(* function whose DOMAIN is its key set, so `k in d` is k \in DOMAIN d.    *)
(* One behaviour is one Python process that imports one of the two         *)
(* modules and then calls its entry point any number of times.             *)
(***************************************************************************)
EXTENDS Integers, Sequences, FiniteSets, TLC

VARIABLES
    loaded,                 \* which module this process imported
    \* ---- lambda.py: lambda_handler ----
    lpc,                    \* position inside lambda_handler
    event,                  \* the event argument
    action_group, function, message_version, parameters,
    response_body,
    lexc,                   \* the exception in flight inside the try block
    executed,                \* handler logic run by this call, in order
    logged,                 \* records written through logger
    lresult,                \* the value returned by lambda_handler
    \* ---- util.py: invoke_agent ----
    bedrock_agent_runtime,  \* module-level client handle
    pc,                     \* position inside invoke_agent
    sessionId, inputText, enableTrace, width,
    agent_response, final_session_id, error_message,
    response,               \* the value returned by the platform call
    consumed,               \* events the for loop has taken from the stream
    exc,                    \* the exception in flight inside the try block
    apiCalls,               \* platform invocation calls made by this call
    stdout, stderr,         \* what this call printed so far
    result                  \* the value returned by invoke_agent

lambdaVars == <<lpc, event, action_group, function, message_version, parameters,
                response_body, lexc, executed, logged, lresult>>
utilVars == <<bedrock_agent_runtime, pc, sessionId, inputText, enableTrace, width,
              agent_response, final_session_id, error_message, response,
              consumed, exc, apiCalls, stdout, stderr, result>>
vars == <<loaded, lambdaVars, utilVars>>

\* ---------------------------------------------------------------------------
\* Python values shared by both modules
\* ---------------------------------------------------------------------------

\* Python's None, for the locals and results that hold a str or None.
None == <<"<None>">>

\* A local that has not been assigned yet.
Unset == <<"<unset>">>

\* {} (the function with the empty domain)
EmptyDict == <<>>

\* An exception object: its class, str(e), and (for ClientError) e.response.
Exc(class, args) == [class |-> class, args |-> args, response |-> EmptyDict]

\* No exception in flight.
NoExc == Exc("none", <<>>)

\* s * n for a one-character str s: n copies, none when n <= 0.
RECURSIVE Repeat(_, _)
Repeat(s, n) == IF n <= 0 THEN <<>> ELSE s \o Repeat(s, n - 1)

\* ---------------------------------------------------------------------------
\* lambda.py
\* ---------------------------------------------------------------------------

BAD_REQUEST == 400
INTERNAL_SERVER_ERROR == 500

\* Values the platform (or any caller) can put in the request fields.
ActionGroups == {<<"orders">>, <<"billing">>}
FunctionNames == {<<"process_return">>, <<"get_status">>, <<"process_">>, <<>>}
MessageVersions == {1, 2}
ParameterLists == {<<>>, <<[name |-> <<"orderNumber">>, value |-> <<"abc123">>]>>}

DictItems ==
    [actionGroup : ActionGroups, function : FunctionNames,
     messageVersion : MessageVersions, parameters : ParameterLists]

\* d restricted to the keys ks: a dict that lacks the other keys.
Restrict(d, ks) == [k \in ks |-> d[k]]

RequestKeys == {"actionGroup", "function", "messageVersion", "parameters"}

\* The events lambda_handler can be called with: every dict over the request
\* keys, and JSON payloads that are not an object.
Events ==
    { [type |-> "dict", items |-> Restrict(d, ks)] :
          d \in DictItems, ks \in SUBSET RequestKeys }
    \cup { [type |-> "list", items |-> <<>>], [type |-> "NoneType", items |-> <<>>] }

\* str(e) for e = KeyError(key): the repr of the key.
KeyErrorStr(key) == <<"'">> \o key \o <<"'">>

\* message of the TypeError raised by event['actionGroup'] on a non-dict.
SubscriptTypeError(type) ==
    IF type = "list"
    THEN <<"list indices must be integers or slices, not str">>
    ELSE <<"'">> \o <<type>> \o <<"' object is not subscriptable">>

\* The exception raised by lines 25-28 on this event, NoExc when none.
ReadFieldsRaises(ev) ==
    IF ev.type # "dict"
    THEN Exc("TypeError", SubscriptTypeError(ev.type))
    ELSE IF "actionGroup" \notin DOMAIN ev.items
    THEN Exc("KeyError", <<"actionGroup">>)
    ELSE IF "function" \notin DOMAIN ev.items
    THEN Exc("KeyError", <<"function">>)
    ELSE NoExc

\* d.get(k, default)
DictGet(d, k, default) == IF k \in DOMAIN d THEN d[k] ELSE default

\* str(e) as the handlers of lines 71-82 compute it.
ExcStr(e) == IF e.class = "KeyError" THEN KeyErrorStr(e.args) ELSE e.args

ProcessReturnBody ==
    [TEXT |-> [body |-> <<"Process return function was called successfully with parameters:">>]]

\* the acknowledgement without its format argument
OtherFunctionBodyNoName(fn) ==
    [TEXT |-> [body |-> <<"The other function ">>
                        \o <<" return function was called successfully">>]]

OtherFunctionBody(fn) ==
    [TEXT |-> [body |-> <<"The other function ">> \o fn
                        \o <<" return function was called successfully">>]]

\* the envelope with a fixed message version
BuildResponseFixedVersion(ag, fn, body, mv) ==
    [response |-> [actionGroup |-> ag, function |-> fn,
                   functionResponse |-> [responseBody |-> body]],
     messageVersion |-> 1]

\* lines 54-64
BuildResponse(ag, fn, body, mv) ==
    [response |-> [actionGroup |-> ag, function |-> fn,
                   functionResponse |-> [responseBody |-> body]],
     messageVersion |-> mv]

\* the missing-field result with the status of the generic handler
KeyErrorResultAs500(e) ==
    [statusCode |-> INTERNAL_SERVER_ERROR, body |-> <<"Error: ">> \o ExcStr(e)]

\* lines 73-76
KeyErrorResult(e) ==
    [statusCode |-> BAD_REQUEST, body |-> <<"Error: ">> \o ExcStr(e)]

\* the generic result with the exception's message in its body
ExceptionResultLeaks(e) ==
    [statusCode |-> INTERNAL_SERVER_ERROR,
     body |-> <<"Internal server error: ">> \o ExcStr(e)]

\* lines 79-82
ExceptionResult(e) ==
    [statusCode |-> INTERNAL_SERVER_ERROR, body |-> <<"Internal server error">>]

NoResult == [none |-> TRUE]

\* import of lambda.py (lines 1-7)
LoadLambda ==
    /\ loaded = "none"
    /\ loaded' = "lambda"
    /\ UNCHANGED <<lambdaVars, utilVars>>

\* a call lambda_handler(ev, context)
LambdaCall(ev) ==
    /\ loaded = "lambda"
    /\ lpc \in {"idle", "returned"}
    /\ lpc' = "try"
    /\ event' = ev
    /\ action_group' = Unset /\ function' = Unset
    /\ message_version' = 0 /\ parameters' = <<>>
    /\ response_body' = [unset |-> TRUE]
    /\ lexc' = NoExc
    /\ executed' = <<>>
    /\ logged' = <<>>
    /\ lresult' = NoResult
    /\ UNCHANGED <<loaded, utilVars>>

\* lines 25-28
LambdaReadFields ==
    /\ lpc = "try"
    /\ LET e == ReadFieldsRaises(event) IN
       IF e # NoExc
       THEN /\ lexc' = e
            /\ lpc' = "except"
            /\ UNCHANGED <<action_group, function, message_version, parameters>>
       ELSE /\ action_group' = event.items["actionGroup"]
            /\ function' = event.items["function"]
            /\ message_version' = DictGet(event.items, "messageVersion", 1)
            /\ parameters' = DictGet(event.items, "parameters", <<>>)
            /\ lpc' = "dispatch"
            /\ UNCHANGED lexc
    /\ UNCHANGED <<loaded, event, response_body, executed, logged, lresult, utilVars>>

\* lines 39-47: the process_return branch, with the call of process_return
LambdaProcessReturn ==
    /\ lpc = "dispatch"
    /\ function = <<"process_return">>
    /\ executed' = Append(executed, "process_return")
    /\ response_body' = ProcessReturnBody
    /\ lpc' = "respond"
    /\ UNCHANGED <<loaded, event, action_group, function, message_version,
                   parameters, lexc, logged, lresult, utilVars>>

\* lines 48-53: the acknowledgement for any other function name
LambdaOtherFunction ==
    /\ lpc = "dispatch"
    /\ function # <<"process_return">>
    /\ executed' = Append(executed, "acknowledge")
    /\ response_body' = OtherFunctionBody(function)
    /\ lpc' = "respond"
    /\ UNCHANGED <<loaded, event, action_group, function, message_version,
                   parameters, lexc, logged, lresult, utilVars>>

\* lines 54-68
LambdaRespond ==
    /\ lpc = "respond"
    /\ LET r == BuildResponse(action_group, function, response_body, message_version) IN
       /\ logged' = Append(logged, [level |-> "INFO", msg |-> <<"Response: %s">>])
       /\ lresult' = r
    /\ lpc' = "returned"
    /\ UNCHANGED <<loaded, event, action_group, function, message_version,
                   parameters, response_body, lexc, executed, utilVars>>

\* lines 71-76
LambdaExceptKeyError ==
    /\ lpc = "except"
    /\ lexc.class = "KeyError"
    /\ logged' = Append(logged, [level |-> "ERROR",
                                 msg |-> <<"Missing required field: ">> \o ExcStr(lexc)])
    /\ lresult' = KeyErrorResult(lexc)
    /\ lpc' = "returned"
    /\ UNCHANGED <<loaded, event, action_group, function, message_version,
                   parameters, response_body, lexc, executed, utilVars>>

\* lines 77-82
LambdaExceptException ==
    /\ lpc = "except"
    /\ lexc.class # "KeyError"
    /\ logged' = Append(logged, [level |-> "ERROR",
                                 msg |-> <<"Unexpected error: ">> \o ExcStr(lexc)])
    /\ lresult' = ExceptionResult(lexc)
    /\ lpc' = "returned"
    /\ UNCHANGED <<loaded, event, action_group, function, message_version,
                   parameters, response_body, lexc, executed, utilVars>>

\* ---------------------------------------------------------------------------
\* util.py: values
\* ---------------------------------------------------------------------------

\* truthiness of a str-or-None
Truthy(s) == s # None /\ s # <<>>

\* b'...'.decode('utf-8', errors='replace') over the bytes the model uses:
\* 72 'H', 105 'i', 10 newline, 195 169 the two-byte encoding of U+00E9,
\* 255 never valid.  A lead byte without its continuation byte, a stray
\* continuation byte and an invalid byte each become one U+FFFD.
RECURSIVE Decode(_)
Decode(bs) ==
    IF bs = <<>> THEN <<>>
    ELSE LET b == Head(bs) IN
         IF b = 72 THEN <<"H">> \o Decode(Tail(bs))
         ELSE IF b = 105 THEN <<"i">> \o Decode(Tail(bs))
         ELSE IF b = 10 THEN <<"\n">> \o Decode(Tail(bs))
         ELSE IF b = 195 /\ Len(bs) >= 2 /\ bs[2] = 169
              THEN <<"U+00E9">> \o Decode(Tail(Tail(bs)))
         ELSE <<"U+FFFD">> \o Decode(Tail(bs))

\* chunk_text.replace("\n", "\n ")
RECURSIVE ReplaceNewline(_)
ReplaceNewline(s) ==
    IF s = <<>> THEN <<>>
    ELSE IF Head(s) = "\n" THEN <<"\n", " ">> \o ReplaceNewline(Tail(s))
    ELSE <<Head(s)>> \o ReplaceNewline(Tail(s))

\* One call of print: the text, the end= argument, and whether the text went
\* through textwrap.fill (with which indent) first.
Emit(text) == [text |-> text, end |-> <<"\n">>, wrap |-> FALSE, indent |-> <<>>]
EmitInline(text) == [text |-> text, end |-> <<>>, wrap |-> FALSE, indent |-> <<>>]

\* _print_indented (lines 38-41), for a width textwrap accepts
EmitIndented(text, indent) ==
    [text |-> text, end |-> <<"\n">>, wrap |-> TRUE, indent |-> indent]

\* textwrap.fill raises ValueError for width <= 0, whatever the text
FillRaises(w) == w <= 0

FillValueError(w) ==
    Exc("ValueError", <<"invalid width ", ToString(w), " (must be > 0)">>)

\* s[:150]
PreviewLen == 150
Preview(s) == SubSeq(s, 1, IF Len(s) < PreviewLen THEN Len(s) ELSE PreviewLen)

NA == <<"N/A">>

RECURSIVE Flatten(_)
Flatten(ss) == IF ss = <<>> THEN <<>> ELSE Head(ss) \o Flatten(Tail(ss))

\* ---------------------------------------------------------------------------
\* util.py: trace rendering (lines 43-186).  Each operator is the sequence of
\* print calls the code makes for its part of the trace.
\* ---------------------------------------------------------------------------

\* A JSON value that may or may not be a str (only str can be sliced).
StrValue(s) == [type |-> "str", value |-> s]
NullValue == [type |-> "NoneType", value |-> <<>>]

\* lines 48-52
OrchRationale(orch) ==
    LET rationale == DictGet(DictGet(orch, "rationale", EmptyDict), "text", None) IN
    IF Truthy(rationale)
    THEN << Emit(<<"\nAgent's thought process:">>), EmitIndented(rationale, <<"  ">>) >>
    ELSE <<>>

\* lines 64-70
OrchParameters(params) ==
    IF params # <<>>
    THEN [i \in 1..Len(params) |->
            Emit(<<"    - Name: ">> \o DictGet(params[i], "name", NA)
                 \o <<", Type: ">> \o DictGet(params[i], "type", NA)
                 \o <<", Value: ">> \o DictGet(params[i], "value", NA))]
    ELSE << Emit(<<"    N/A">>) >>

\* lines 55-81
OrchInvocationInput(orch) ==
    LET inv_input == DictGet(orch, "invocationInput", EmptyDict)
        inv_type == DictGet(inv_input, "invocationType", NA)
    IN  << Emit(<<"\nInvocation Input (">> \o inv_type \o <<"):">>) >> \o
        IF "actionGroupInvocationInput" \in DOMAIN inv_input
        THEN LET agi == inv_input["actionGroupInvocationInput"] IN
             << Emit(<<"  Action Group: ">> \o DictGet(agi, "actionGroupName", NA)),
                Emit(<<"  Function: ">> \o DictGet(agi, "function", NA)),
                Emit(<<"  Parameters:">>) >>
             \o OrchParameters(DictGet(agi, "parameters", <<>>))
        ELSE IF "knowledgeBaseLookupInput" \in DOMAIN inv_input
        THEN LET kbl == inv_input["knowledgeBaseLookupInput"] IN
             << Emit(<<"  Knowledge Base ID: ">> \o DictGet(kbl, "knowledgeBaseId", NA)),
                Emit(<<"  Query Text: ">> \o DictGet(kbl, "text", NA)) >>
        ELSE IF "codeInterpreterInput" \in DOMAIN inv_input
        THEN LET cii == inv_input["codeInterpreterInput"] IN
             << Emit(<<"  Code: ">> \o DictGet(cii, "code", NA)),
                Emit(<<"  Files: ">> \o DictGet(cii, "files", NA)) >>
        ELSE << Emit(<<"  Details: ", "<repr of invocationInput>">>) >>

\* lines 98-111: one retrieved reference
ObsReference(i, ref) ==
    LET content == DictGet(DictGet(ref, "content", EmptyDict), "text", NA)
        location_info == DictGet(ref, "location", EmptyDict)
        location ==
            IF "s3Location" \in DOMAIN location_info
            THEN DictGet(location_info["s3Location"], "uri", NA)
            ELSE IF "webLocation" \in DOMAIN location_info
            THEN DictGet(location_info["webLocation"], "url", NA)
            ELSE NA
        score == DictGet(ref, "score", NA)
    IN  << Emit(<<"    Reference ", ToString(i), " (Score: ">> \o score
                \o <<", Location: ">> \o location \o <<"):">>),
           EmitIndented(Preview(content) \o <<"...">>, <<"      ">>) >>

\* lines 84-113: the observation header, the action group output and the
\* knowledge base lookup output
ObsBeforeCodeInterpreter(obs) ==
    LET obs_type == DictGet(obs, "type", NA) IN
    << Emit(<<"\nObservation (">> \o obs_type \o <<"):">>) >>
    \o (IF "actionGroupInvocationOutput" \in DOMAIN obs
        THEN << Emit(<<"  Action Group Output: ">>
                     \o DictGet(obs["actionGroupInvocationOutput"], "text", NA)) >>
        ELSE <<>>)
    \o (IF "knowledgeBaseLookupOutput" \in DOMAIN obs
        THEN LET refs == DictGet(obs["knowledgeBaseLookupOutput"],
                                 "retrievedReferences", <<>>) IN
             << Emit(<<"  Knowledge Base Lookup Output:">>) >>
             \o (IF refs # <<>>
                 THEN Flatten([i \in 1..Len(refs) |-> ObsReference(i, refs[i])])
                 ELSE << Emit(<<"    No references found.">>) >>)
        ELSE <<>>)

\* lines 115-121: slicing executionOutput raises TypeError unless it is a str
ObsCodeInterpreter(obs) ==
    IF "codeInterpreterInvocationOutput" \notin DOMAIN obs
    THEN [out |-> <<>>, raised |-> NoExc]
    ELSE LET cio == obs["codeInterpreterInvocationOutput"]
             output == DictGet(cio, "executionOutput", StrValue(NA))
         IN  IF output.type # "str"
             THEN [out |-> << Emit(<<"  Code Interpreter Output:">>) >>,
                   raised |-> Exc("TypeError",
                                  <<"'", output.type, "' object is not subscriptable">>)]
             ELSE [out |-> << Emit(<<"  Code Interpreter Output:">>),
                              Emit(<<"    Execution Output: ">> \o Preview(output.value)
                                   \o <<"...">>),
                              Emit(<<"    Execution Error: ">>
                                   \o DictGet(cio, "executionError", NA)),
                              Emit(<<"    Execution Timeout: ">>
                                   \o DictGet(cio, "executionTimeout", NA)) >>,
                   raised |-> NoExc]

\* lines 123-129
ObsFinalResponse(obs) ==
    IF "finalResponse" \in DOMAIN obs
    THEN LET final_response == DictGet(obs["finalResponse"], "text", <<>>) IN
         IF final_response # <<>>
         THEN << Emit(<<"\nFinal response (from trace):">>),
                 EmitIndented(final_response, <<"  ">>) >>
         ELSE <<>>
    ELSE <<>>

\* _process_orchestration_trace (lines 43-131): what it printed and the
\* exception it raised, if any
ProcessOrchestrationTrace(trace_details) ==
    LET orch == DictGet(trace_details, "orchestrationTrace", EmptyDict)
        obs == DictGet(orch, "observation", EmptyDict)
        before == OrchRationale(orch) \o OrchInvocationInput(orch)
                  \o ObsBeforeCodeInterpreter(obs)
        cio == ObsCodeInterpreter(obs)
    IN  IF cio.raised # NoExc
        THEN [out |-> before \o cio.out, raised |-> cio.raised]
        ELSE [out |-> before \o cio.out \o ObsFinalResponse(obs), raised |-> NoExc]

\* lines 150-184: one assessment
GuardAssessment(assessment) ==
    (IF "contentPolicy" \in DOMAIN assessment
     THEN LET filters == DictGet(assessment["contentPolicy"], "filters", <<>>) IN
          << Emit(<<"  Content Policy Assessment:">>) >>
          \o (IF filters # <<>>
              THEN [i \in 1..Len(filters) |->
                      Emit(<<"    - Filter: ">> \o DictGet(filters[i], "type", NA)
                           \o <<" (Confidence: ">> \o DictGet(filters[i], "confidence", NA)
                           \o <<", Action: ">> \o DictGet(filters[i], "action", NA)
                           \o <<")">>)]
              ELSE << Emit(<<"    No content filters applied.">>) >>)
     ELSE <<>>)
    \o (IF "sensitiveInformationPolicy" \in DOMAIN assessment
        THEN LET pii == DictGet(assessment["sensitiveInformationPolicy"],
                                "piiEntities", <<>>) IN
             << Emit(<<"  Sensitive Information Policy Assessment:">>) >>
             \o (IF pii # <<>>
                 THEN [i \in 1..Len(pii) |->
                         Emit(<<"    - PII Detected: ">> \o DictGet(pii[i], "type", NA)
                              \o <<" (Action: ">> \o DictGet(pii[i], "action", NA)
                              \o <<")">>)]
                 ELSE << Emit(<<"    No PII detected.">>) >>)
        ELSE <<>>)
    \o (IF "wordPolicy" \in DOMAIN assessment
        THEN LET wp == assessment["wordPolicy"]
                 custom_matches == DictGet(wp, "customWords", <<>>)
                 managed_matches == DictGet(wp, "managedWordLists", <<>>)
             IN  << Emit(<<"  Word Policy Assessment:">>) >>
                 \o (IF custom_matches # <<>> \/ managed_matches # <<>>
                     THEN [i \in 1..Len(custom_matches) |->
                             Emit(<<"    - Custom Word Match: ">>
                                  \o DictGet(custom_matches[i], "match", NA)
                                  \o <<" (Action: ">>
                                  \o DictGet(custom_matches[i], "action", NA) \o <<")">>)]
                          \o [i \in 1..Len(managed_matches) |->
                             Emit(<<"    - Managed Word List Match: ">>
                                  \o DictGet(managed_matches[i], "match", NA)
                                  \o <<" (Action: ">>
                                  \o DictGet(managed_matches[i], "action", NA) \o <<")">>)]
                     ELSE << Emit(<<"    No word policy matches.">>) >>)
        ELSE <<>>)

\* _process_guardrail_trace (lines 133-186)
ProcessGuardrailTrace(trace_details) ==
    LET guard_trace == DictGet(trace_details, "guardrailTrace", EmptyDict)
        action == DictGet(guard_trace, "action", NA)
        assessments == DictGet(guard_trace, "inputAssessments", <<>>)
                       \o DictGet(guard_trace, "outputAssessments", <<>>)
    IN  << Emit(<<"\nGuardrail Trace (Action: ">> \o action \o <<"):">>) >>
        \o (IF assessments = <<>>
            THEN << Emit(<<"  No guardrail assessments found.">>) >>
            ELSE Flatten([i \in 1..Len(assessments) |-> GuardAssessment(assessments[i])]))

\* lines 282-292: the trace branch of the loop body
RenderTrace(trace) ==
    LET nested == DictGet(trace, "trace", EmptyDict)
        trace_details == IF nested = EmptyDict THEN trace ELSE nested
        orch == IF "orchestrationTrace" \in DOMAIN trace_details
                THEN ProcessOrchestrationTrace(trace_details)
                ELSE [out |-> <<>>, raised |-> NoExc]
    IN  IF orch.raised # NoExc
        THEN orch
        ELSE [out |-> orch.out \o (IF "guardrailTrace" \in DOMAIN trace_details
                                   THEN ProcessGuardrailTrace(trace_details)
                                   ELSE <<>>),
              raised |-> NoExc]

\* ---------------------------------------------------------------------------
\* util.py: invoke_agent (lines 190-340)
\* ---------------------------------------------------------------------------

\* Longest stream the platform delivers in the model.
MaxStream == 3

\* Arguments of a call.  agentId, agentAliasId and endSession are only passed
\* on to the platform call and are left out.
SessionIds == {<<"s1">>, <<"s2">>}
InputTexts == {<<"where is my order">>}
Widths == {0, 2}

\* Payloads of chunk events: "Hi", U+00E9 followed by a newline, and a
\* truncated two-byte sequence.
Payloads == {<<72, 105>>, <<195, 169, 10>>, <<195>>}

\* A trace nested under 'trace', with both facets.
TraceNested ==
    [agentId |-> <<"A1">>,
     trace |->
       [orchestrationTrace |->
          [rationale |-> [text |-> <<"look up the order">>],
           invocationInput |->
             [invocationType |-> <<"ACTION_GROUP">>,
              actionGroupInvocationInput |->
                [actionGroupName |-> <<"orders">>, function |-> <<"process_return">>,
                 parameters |-> << [name |-> <<"orderNumber">>, type |-> <<"string">>,
                                    value |-> <<"abc123">>] >>]],
           observation |->
             [type |-> <<"FINISH">>, finalResponse |-> [text |-> <<"returned">>]]],
        guardrailTrace |-> [action |-> <<"NONE">>]]]

\* An unnested trace: a knowledge base lookup and guardrail assessments.
TraceFlat ==
    [orchestrationTrace |->
       [invocationInput |->
          [invocationType |-> <<"KNOWLEDGE_BASE">>,
           knowledgeBaseLookupInput |-> [knowledgeBaseId |-> <<"KB1">>]],
        observation |->
          [type |-> <<"KNOWLEDGE_BASE">>,
           knowledgeBaseLookupOutput |->
             [retrievedReferences |->
                << [content |-> [text |-> <<"policy text">>],
                    location |-> [s3Location |-> [uri |-> <<"s3://kb/doc">>]]] >>],
           codeInterpreterInvocationOutput |->
             [executionOutput |-> StrValue(<<"42">>)]]],
     guardrailTrace |->
       [action |-> <<"INTERVENED">>,
        inputAssessments |->
          << [contentPolicy |-> [filters |-> << [type |-> <<"HATE">>] >>],
              wordPolicy |-> EmptyDict] >>,
        outputAssessments |->
          << [sensitiveInformationPolicy |->
                [piiEntities |-> << [type |-> <<"EMAIL">>, action |-> <<"BLOCKED">>] >>]] >>]]

\* A trace whose code interpreter output carries a null executionOutput.
TraceNullOutput ==
    [trace |->
       [orchestrationTrace |->
          [observation |->
             [codeInterpreterInvocationOutput |-> [executionOutput |-> NullValue]]],
        guardrailTrace |-> [action |-> <<"NONE">>]]]

Traces == {TraceNested, TraceFlat, TraceNullOutput}

\* The events the completion stream can deliver.
StreamEvents ==
    { [chunk |-> [bytes |-> p]] : p \in Payloads }
    \cup { [chunk |-> EmptyDict] }
    \cup { [trace |-> t] : t \in Traces }
    \cup { [chunk |-> [bytes |-> <<72, 105>>], trace |-> TraceNested] }
    \cup { [returnControl |-> EmptyDict] }

\* The exceptions the platform call and the stream iterator can raise.
ClientErrors ==
    { [class |-> "ClientError", args |-> <<"An error occurred">>,
       response |-> [Error |-> [Code |-> <<"ThrottlingException">>,
                                Message |-> <<"Rate exceeded">>]]],
      [class |-> "ClientError", args |-> <<"An error occurred">>,
       response |-> EmptyDict] }
Faults ==
    ClientErrors
    \cup { Exc("BotoCoreError", <<"Unable to locate credentials">>),
           Exc("RuntimeError", <<"connection reset">>) }

\* lines 230-236
NotInitializedMessage ==
    <<"ERROR: Bedrock Agent Runtime client is not initialized. Cannot invoke agent.">>

\* an early return that reports no error
NotInitializedResultNoError(sid) ==
    [sessionId |-> sid, agentResponse |-> <<>>, error |-> None]

\* an early return that reports no session
NotInitializedResultNoSession(sid) ==
    [sessionId |-> None, agentResponse |-> <<>>, error |-> NotInitializedMessage]

NotInitializedResult(sid) ==
    [sessionId |-> sid, agentResponse |-> <<>>, error |-> NotInitializedMessage]

\* line 272
ChunkText(chunk) == Decode(DictGet(chunk, "bytes", <<>>))

\* the aggregation with its operands swapped
AggregatePrepend(acc, chunk_text) == chunk_text \o acc

\* line 274
Aggregate(acc, chunk_text) == acc \o chunk_text

\* a chunk print that ignores the tracing flag
ChunkOutputAlways(trace, chunk_text) ==
    IF chunk_text # <<>>
    THEN << EmitInline(ReplaceNewline(chunk_text)) >>
    ELSE <<>>

\* lines 275-278: what a chunk prints
ChunkOutput(trace, chunk_text) ==
    IF ~trace /\ chunk_text # <<>>
    THEN << EmitInline(ReplaceNewline(chunk_text)) >>
    ELSE <<>>

\* line 281: whether the trace branch of the loop body is taken
TakesTraceBranch(ev, trace) ==
    "chunk" \notin DOMAIN ev /\ "trace" \in DOMAIN ev /\ trace

\* lines 299-312: the error_message each handler builds
ErrorMessage(e) ==
    IF e.class = "ClientError"
    THEN LET err == DictGet(e.response, "Error", EmptyDict) IN
         <<"ERROR: AWS API Call Error: ">> \o DictGet(err, "Code", <<"Unknown">>)
         \o <<": ">> \o DictGet(err, "Message", <<"No details provided">>)
    ELSE IF e.class = "BotoCoreError"
    THEN <<"ERROR: BotoCore Error: ">> \o e.args
    ELSE <<"ERROR: An unexpected error occurred: ">> \o e.args

\* a summary that never reports a failure
StatusAlwaysCompleted(err) == <<"Completed">>

\* line 331
Status(err) == IF Truthy(err) THEN <<"Failed">> ELSE <<"Completed">>

\* lines 245-252: the prints before _print_indented, and those after it
FrameHead(w, sid) ==
    << Emit(<<"\n">> \o Repeat(<<"=">>, w)),
       Emit(<<"User Input (Session: ">> \o sid \o <<"):">>) >>

FrameTail(w, text, trace) ==
    << EmitIndented(text, <<"  ">>),
       Emit(Repeat(<<"-">>, w)),
       Emit(<<"Agent Output:">>) >>
    \o (IF ~trace THEN << EmitInline(<<" ">>) >> ELSE <<>>)

\* lines 323-326
AggregatedOutput(trace, acc, w) ==
    IF trace /\ acc # <<>>
    THEN << Emit(Repeat(<<"-">>, w)),
            Emit(<<"Aggregated Agent Response:">>),
            EmitIndented(acc, <<"  ">>) >>
    ELSE <<>>

\* lines 329-333
StatusSummary(w, sid, err) ==
    << Emit(Repeat(<<"=">>, w)),
       Emit(<<"Session ID: ">> \o sid),
       Emit(<<"Status: ">> \o Status(err)),
       Emit(Repeat(<<"=">>, w) \o <<"\n">>) >>

\* a return that drops the partial text when an error was recorded
ReturnValueDropsPartial(sid, acc, err) ==
    [sessionId |-> sid, agentResponse |-> IF err # None THEN <<>> ELSE acc, error |-> err]

\* lines 336-340
ReturnValue(sid, acc, err) ==
    [sessionId |-> sid, agentResponse |-> acc, error |-> err]

\* import of util.py (lines 18-33): boto3.client returns a client, or raises
\* ClientError / BotoCoreError and the handle becomes None
LoadUtil(ok) ==
    /\ loaded = "none"
    /\ loaded' = "util"
    /\ bedrock_agent_runtime' = IF ok THEN "client" ELSE "None"
    /\ stderr' = IF ok THEN stderr
                 ELSE Append(stderr, <<"ERROR: Failed to initialize Boto3 client for Bedrock Agent Runtime: ">>)
    /\ UNCHANGED <<lambdaVars, pc, sessionId, inputText, enableTrace, width,
                   agent_response, final_session_id, error_message, response,
                   consumed, exc, apiCalls, stdout, result>>

\* a call invoke_agent(sessionId=sid, inputText=text, enableTrace=trace, width=w)
InvokeAgent(sid, text, trace, w) ==
    /\ loaded = "util"
    /\ pc \in {"idle", "returned"}
    /\ pc' = "check"
    /\ sessionId' = sid /\ inputText' = text /\ enableTrace' = trace /\ width' = w
    /\ agent_response' = <<>> /\ final_session_id' = Unset /\ error_message' = None
    /\ response' = [none |-> TRUE]
    /\ consumed' = <<>>
    /\ exc' = NoExc
    /\ apiCalls' = 0
    /\ stdout' = <<>> /\ stderr' = <<>>
    /\ result' = NoResult
    /\ UNCHANGED <<loaded, lambdaVars, bedrock_agent_runtime>>

\* lines 229-236: the client was not initialized
ClientNotInitialized ==
    /\ pc = "check"
    /\ bedrock_agent_runtime = "None"
    /\ stderr' = Append(stderr, NotInitializedMessage)
    /\ result' = NotInitializedResult(sessionId)
    /\ pc' = "returned"
    /\ UNCHANGED <<loaded, lambdaVars, bedrock_agent_runtime, sessionId, inputText,
                   enableTrace, width, agent_response, final_session_id,
                   error_message, response, consumed, exc, apiCalls, stdout>>

\* lines 229, 238-240
InitLocals ==
    /\ pc = "check"
    /\ bedrock_agent_runtime # "None"
    /\ agent_response' = <<>>
    /\ final_session_id' = sessionId
    /\ error_message' = None
    /\ pc' = "frame"
    /\ UNCHANGED <<loaded, lambdaVars, bedrock_agent_runtime, sessionId, inputText,
                   enableTrace, width, response, consumed, exc, apiCalls,
                   stdout, stderr, result>>

\* lines 245-252
Frame ==
    /\ pc = "frame"
    /\ IF FillRaises(width)
       THEN /\ stdout' = stdout \o FrameHead(width, sessionId)
            /\ exc' = FillValueError(width)
            /\ pc' = "except"
       ELSE /\ stdout' = stdout \o FrameHead(width, sessionId)
                         \o FrameTail(width, inputText, enableTrace)
            /\ exc' = exc
            /\ pc' = "call"
    /\ UNCHANGED <<loaded, lambdaVars, bedrock_agent_runtime, sessionId, inputText,
                   enableTrace, width, agent_response, final_session_id,
                   error_message, response, consumed, apiCalls, stderr, result>>

\* lines 256-266: the platform call returns, with or without a completion stream
ApiCall(hasCompletion) ==
    /\ pc = "call"
    /\ apiCalls' = apiCalls + 1
    /\ response' = IF hasCompletion THEN [completion |-> "stream"] ELSE EmptyDict
    /\ pc' = "loop"
    /\ UNCHANGED <<loaded, lambdaVars, bedrock_agent_runtime, sessionId, inputText,
                   enableTrace, width, agent_response, final_session_id,
                   error_message, consumed, exc, stdout, stderr, result>>

\* lines 256-263: the platform call raises
ApiCallRaises(e) ==
    /\ pc = "call"
    /\ apiCalls' = apiCalls + 1
    /\ exc' = e
    /\ pc' = "except"
    /\ UNCHANGED <<loaded, lambdaVars, bedrock_agent_runtime, sessionId, inputText,
                   enableTrace, width, agent_response, final_session_id,
                   error_message, response, consumed, stdout, stderr, result>>

\* the stream can still deliver an event
StreamOpen == "completion" \in DOMAIN response /\ Len(consumed) < MaxStream

\* lines 267-278: one iteration on a chunk event
LoopChunk(ev) ==
    /\ pc = "loop" /\ StreamOpen
    /\ "chunk" \in DOMAIN ev
    /\ consumed' = Append(consumed, ev)
    /\ LET chunk_text == ChunkText(ev["chunk"]) IN
       /\ agent_response' = Aggregate(agent_response, chunk_text)
       /\ stdout' = stdout \o ChunkOutput(enableTrace, chunk_text)
    /\ UNCHANGED <<loaded, lambdaVars, bedrock_agent_runtime, pc, sessionId, inputText,
                   enableTrace, width, final_session_id, error_message, response,
                   exc, apiCalls, stderr, result>>

\* lines 267, 281-292: one iteration on a trace event with tracing enabled
LoopTrace(ev) ==
    /\ pc = "loop" /\ StreamOpen
    /\ TakesTraceBranch(ev, enableTrace)
    /\ consumed' = Append(consumed, ev)
    /\ LET r == RenderTrace(ev["trace"]) IN
       /\ stdout' = stdout \o r.out
       /\ exc' = r.raised
       /\ pc' = IF r.raised # NoExc THEN "except" ELSE "loop"
    /\ UNCHANGED <<loaded, lambdaVars, bedrock_agent_runtime, sessionId, inputText,
                   enableTrace, width, agent_response, final_session_id,
                   error_message, response, apiCalls, stderr, result>>

\* lines 267-292: one iteration on an event neither branch handles
LoopSkip(ev) ==
    /\ pc = "loop" /\ StreamOpen
    /\ "chunk" \notin DOMAIN ev
    /\ ~TakesTraceBranch(ev, enableTrace)
    /\ consumed' = Append(consumed, ev)
    /\ UNCHANGED <<loaded, lambdaVars, bedrock_agent_runtime, pc, sessionId, inputText,
                   enableTrace, width, agent_response, final_session_id,
                   error_message, response, exc, apiCalls, stdout, stderr, result>>

\* line 267: the stream iterator raises
LoopRaises(e) ==
    /\ pc = "loop"
    /\ "completion" \in DOMAIN response
    /\ exc' = e
    /\ pc' = "except"
    /\ UNCHANGED <<loaded, lambdaVars, bedrock_agent_runtime, sessionId, inputText,
                   enableTrace, width, agent_response, final_session_id,
                   error_message, response, consumed, apiCalls, stdout, stderr, result>>

\* line 267: the stream is exhausted
LoopEnd ==
    /\ pc = "loop"
    /\ pc' = "finally"
    /\ UNCHANGED <<loaded, lambdaVars, bedrock_agent_runtime, sessionId, inputText,
                   enableTrace, width, agent_response, final_session_id,
                   error_message, response, consumed, exc, apiCalls, stdout,
                   stderr, result>>

\* the body shared by the three handlers of lines 299-312
Handle ==
    /\ error_message' = ErrorMessage(exc)
    /\ stderr' = Append(stderr, <<"\n">> \o ErrorMessage(exc))
    /\ pc' = "finally"
    /\ UNCHANGED <<loaded, lambdaVars, bedrock_agent_runtime, sessionId, inputText,
                   enableTrace, width, agent_response, final_session_id, response,
                   consumed, exc, apiCalls, stdout, result>>

\* lines 299-304
ExceptClientError == pc = "except" /\ exc.class = "ClientError" /\ Handle

\* lines 305-308
ExceptBotoCoreError == pc = "except" /\ exc.class = "BotoCoreError" /\ Handle

\* a last handler that catches ValueError only
ExceptValueErrorOnly == pc = "except" /\ exc.class = "ValueError" /\ Handle

\* lines 309-312
ExceptException ==
    pc = "except" /\ exc.class \notin {"ClientError", "BotoCoreError"} /\ Handle

\* lines 318-333
Finally ==
    /\ pc = "finally"
    /\ stdout' = stdout \o << Emit(<<"\n">>) >>
                 \o AggregatedOutput(enableTrace, agent_response, width)
                 \o StatusSummary(width, final_session_id, error_message)
    /\ pc' = "return"
    /\ UNCHANGED <<loaded, lambdaVars, bedrock_agent_runtime, sessionId, inputText,
                   enableTrace, width, agent_response, final_session_id,
                   error_message, response, consumed, exc, apiCalls, stderr, result>>

\* lines 336-340
Return ==
    /\ pc = "return"
    /\ result' = ReturnValue(final_session_id, agent_response, error_message)
    /\ pc' = "returned"
    /\ UNCHANGED <<loaded, lambdaVars, bedrock_agent_runtime, sessionId, inputText,
                   enableTrace, width, agent_response, final_session_id,
                   error_message, response, consumed, exc, apiCalls, stdout, stderr>>

\* ---------------------------------------------------------------------------
\* Specification
\* ---------------------------------------------------------------------------

Init ==
    /\ loaded = "none"
    /\ lpc = "idle"
    /\ event = [type |-> "NoneType", items |-> <<>>]
    /\ action_group = Unset /\ function = Unset
    /\ message_version = 0 /\ parameters = <<>>
    /\ response_body = [unset |-> TRUE]
    /\ lexc = NoExc
    /\ executed = <<>>
    /\ logged = <<>>
    /\ lresult = NoResult
    /\ bedrock_agent_runtime = "unset"
    /\ pc = "idle"
    /\ sessionId = <<>> /\ inputText = <<>> /\ enableTrace = FALSE /\ width = 0
    /\ agent_response = <<>> /\ final_session_id = Unset /\ error_message = None
    /\ response = [none |-> TRUE]
    /\ consumed = <<>>
    /\ exc = NoExc
    /\ apiCalls = 0
    /\ stdout = <<>> /\ stderr = <<>>
    /\ result = NoResult

Next ==
    \/ LoadLambda
    \/ \E ev \in Events : LambdaCall(ev)
    \/ LambdaReadFields
    \/ LambdaProcessReturn
    \/ LambdaOtherFunction
    \/ LambdaRespond
    \/ LambdaExceptKeyError
    \/ LambdaExceptException
    \/ \E ok \in BOOLEAN : LoadUtil(ok)
    \/ \E sid \in SessionIds, text \in InputTexts, trace \in BOOLEAN, w \in Widths :
          InvokeAgent(sid, text, trace, w)
    \/ ClientNotInitialized
    \/ InitLocals
    \/ Frame
    \/ \E hasCompletion \in BOOLEAN : ApiCall(hasCompletion)
    \/ \E e \in Faults : ApiCallRaises(e)
    \/ \E ev \in StreamEvents : LoopChunk(ev)
    \/ \E ev \in StreamEvents : LoopTrace(ev)
    \/ \E ev \in StreamEvents : LoopSkip(ev)
    \/ \E e \in Faults : LoopRaises(e)
    \/ LoopEnd
    \/ ExceptClientError
    \/ ExceptBotoCoreError
    \/ ExceptException
    \/ Finally
    \/ Return

Spec == Init /\ [][Next]_vars

\* ---------------------------------------------------------------------------
\* Properties
\* ---------------------------------------------------------------------------

\* The concatenation, in stream order, of the decoded payloads of the chunk
\* events among evs.
RECURSIVE ExpectedAggregate(_)
ExpectedAggregate(evs) ==
    IF evs = <<>> THEN <<>>
    ELSE (IF "chunk" \in DOMAIN Head(evs)
          THEN Decode(IF "bytes" \in DOMAIN Head(evs)["chunk"]
                      THEN Head(evs)["chunk"]["bytes"] ELSE <<>>)
          ELSE <<>>)
         \o ExpectedAggregate(Tail(evs))

\* the str needle occurs in the str haystack
Contains(haystack, needle) ==
    \E i \in 0..(Len(haystack) - Len(needle)) :
        SubSeq(haystack, i + 1, i + Len(needle)) = needle

IsChunkEvent(ev) == "chunk" \in DOMAIN ev
IsTraceOnlyEvent(ev) == "trace" \in DOMAIN ev /\ "chunk" \notin DOMAIN ev

\* invoke_agent has returned from a call that reached the platform and saw no fault
ReturnedClean == pc = "returned" /\ apiCalls = 1 /\ exc = NoExc

\* invoke_agent has returned from a call in which a fault was raised
ReturnedAfterFault == pc = "returned" /\ exc # NoExc

\* C1: when the stream is consumed without a fault, the returned
\* agentResponse is the concatenation, in stream order, of the decoded
\* payloads of all chunk events and error is null, whatever trace events are
\* interleaved and whether tracing is on or off.
C1_AggregateIsConcatenation ==
    ReturnedClean =>
        /\ result.agentResponse = ExpectedAggregate(consumed)
        /\ result.error = None

\* two different chunks with a trace event between them, tracing enabled
C1_Witness ==
    /\ ReturnedClean
    /\ enableTrace
    /\ Len(consumed) = 3
    /\ IsChunkEvent(consumed[1]) /\ IsTraceOnlyEvent(consumed[2]) /\ IsChunkEvent(consumed[3])
    /\ consumed[1] # consumed[3]
    /\ result.agentResponse = <<"H", "i", "U+00E9", "\n">>

\* C2: once a fault is raised the loop takes no further event and the
\* aggregate no longer changes, and the call returns a non-null error with
\* agentResponse equal to the concatenation of the chunks received before it.
C2_PartialOnFault ==
    [][ /\ (pc = "except" =>
              /\ consumed' = consumed
              /\ agent_response' = agent_response
              /\ pc' = "finally")
        /\ (pc = "return" /\ exc # NoExc =>
              /\ result'.error # None
              /\ result'.agentResponse = ExpectedAggregate(consumed)
              /\ consumed' = consumed) ]_vars

\* a platform error raised by the iterator after two chunks
C2_Witness ==
    /\ ReturnedAfterFault
    /\ exc.class = "ClientError"
    /\ Len(consumed) = 2
    /\ IsChunkEvent(consumed[1]) /\ IsChunkEvent(consumed[2])
    /\ result.agentResponse = <<"H", "i", "U+FFFD">>
    /\ result.error # None

\* C3: with the client handle None, no platform call is ever made and the
\* call goes from the check straight to its return, with agentResponse ""
\* and a non-null error.
C3_UninitializedClient ==
    bedrock_agent_runtime = "None" =>
        /\ apiCalls = 0
        /\ pc \in {"idle", "check", "returned"}
        /\ pc = "returned" =>
             /\ result.agentResponse = <<>>
             /\ result.error # None

C3_Witness ==
    /\ bedrock_agent_runtime = "None"
    /\ pc = "returned"
    /\ result.error = NotInitializedMessage

\* the required fields the event of the current call lacks
MissingFields == {"actionGroup", "function"} \ DOMAIN event.items

LambdaActive == lpc # "idle"

HasRequiredFields == event.type = "dict" /\ MissingFields = {}

\* C5: a request with both required fields and a function other than
\* process_return gets a success envelope, not a statusCode result, and its
\* TEXT body contains the function name.
C5_UnknownFunctionAcknowledged ==
    (lpc = "returned" /\ HasRequiredFields
       /\ event.items["function"] # <<"process_return">>) =>
        /\ "statusCode" \notin DOMAIN lresult
        /\ DOMAIN lresult = {"response", "messageVersion"}
        /\ Contains(lresult.response.functionResponse.responseBody.TEXT.body,
                    event.items["function"])

C5_Witness ==
    /\ lpc = "returned"
    /\ HasRequiredFields
    /\ event.items["function"] = <<"get_status">>
    /\ executed = <<"acknowledge">>
    /\ "response" \in DOMAIN lresult

\* C6: for a request with both required fields and function process_return,
\* the response carries the request's actionGroup, function and
\* messageVersion, and messageVersion 1 when the request has none.
C6_EchoesRequest ==
    (lpc = "returned" /\ HasRequiredFields
       /\ event.items["function"] = <<"process_return">>) =>
        /\ DOMAIN lresult = {"response", "messageVersion"}
        /\ lresult.response.actionGroup = event.items["actionGroup"]
        /\ lresult.response.function = event.items["function"]
        /\ lresult.messageVersion =
             (IF "messageVersion" \in DOMAIN event.items
              THEN event.items["messageVersion"] ELSE 1)

C6_Witness ==
    /\ lpc = "returned"
    /\ HasRequiredFields
    /\ event.items["function"] = <<"process_return">>
    /\ "messageVersion" \in DOMAIN event.items
    /\ event.items["messageVersion"] = 2
    /\ lresult.messageVersion = 2
    /\ executed = <<"process_return">>

\* the steps inside a call of invoke_agent, and inside a call of lambda_handler
AgentSteps ==
    \/ ClientNotInitialized \/ InitLocals \/ Frame
    \/ \E hasCompletion \in BOOLEAN : ApiCall(hasCompletion)
    \/ LoopEnd
    \/ ExceptClientError \/ ExceptBotoCoreError \/ ExceptException
    \/ Finally \/ Return

LambdaSteps ==
    \/ LambdaReadFields \/ LambdaProcessReturn \/ LambdaOtherFunction
    \/ LambdaRespond \/ LambdaExceptKeyError \/ LambdaExceptException

C8_StatusClasses ==
    (lpc = "returned" /\ lexc # NoExc) =>
        /\ "statusCode" \in DOMAIN lresult
        /\ lresult.statusCode \in {400, 500}
        /\ (lresult.statusCode = 400 <=> (event.type = "dict" /\ MissingFields # {}))
        /\ (lresult.statusCode = 500 =>
              /\ lresult.body = <<"Internal server error">>
              /\ ~Contains(lresult.body, lexc.args))

C8_Witness ==
    /\ lpc = "returned"
    /\ event.type = "list"
    /\ lexc.class = "TypeError"
    /\ lresult.statusCode = 500

\* the closing status summary with this status is on stdout
SummaryRendered(status) ==
    \E i \in 1..(Len(stdout) - 1) :
        /\ stdout[i].text = <<"Session ID: ">> \o sessionId
        /\ stdout[i + 1].text = <<"Status: ">> \o status

\* the full aggregated text is on stdout after its heading
AggregateRendered ==
    \E i \in 1..(Len(stdout) - 1) :
        /\ stdout[i].text = <<"Aggregated Agent Response:">>
        /\ stdout[i + 1].text = result.agentResponse
        /\ stdout[i + 1].wrap

SummaryMatchesResult ==
    /\ (result.error # None =>
          SummaryRendered(<<"Failed">>) /\ ~SummaryRendered(<<"Completed">>))
    /\ (result.error = None =>
          SummaryRendered(<<"Completed">>) /\ ~SummaryRendered(<<"Failed">>))
    /\ (AggregateRendered <=> (enableTrace /\ result.agentResponse # <<>>))

\* C9 as stated: every call, the one that finds the client uninitialized
\* included, renders the closing status summary.
C9_Original == pc = "returned" => SummaryMatchesResult

\* C9 amended: every call that finds the client initialized renders the
\* closing status summary with the session id and the status Failed exactly
\* when the returned error is non-null, and renders the full aggregated text
\* exactly when tracing was enabled and the aggregate is non-empty; a call
\* that finds the client uninitialized prints nothing to stdout.
C9_Finalization ==
    pc = "returned" =>
        IF bedrock_agent_runtime = "None"
        THEN stdout = <<>>
        ELSE SummaryMatchesResult

C9_Witness ==
    /\ pc = "returned"
    /\ bedrock_agent_runtime = "client"
    /\ enableTrace
    /\ result.error # None
    /\ result.agentResponse # <<>>
    /\ SummaryRendered(<<"Failed">>)
    /\ AggregateRendered

\* C10: whenever invoke_agent returns, the sessionId it returns is the
\* sessionId argument, and no step of a call changes the module-level client
\* handle.
C10_SessionAndHandleFrame ==
    [][ /\ (pc' = "returned" => result'.sessionId = sessionId)
        /\ (loaded = "util" => bedrock_agent_runtime' = bedrock_agent_runtime) ]_vars

\* a return after a transport fault, with the second session id
C10_Witness ==
    /\ pc = "returned"
    /\ sessionId = <<"s2">>
    /\ exc.class = "BotoCoreError"
    /\ result.sessionId = <<"s2">>
    /\ bedrock_agent_runtime = "client"

\* the loop takes the event ev in this step
Consumes(ev) == consumed' = Append(consumed, ev)

\* the decoded text of a chunk event
ChunkTextOf(ev) ==
    Decode(IF "bytes" \in DOMAIN ev["chunk"] THEN ev["chunk"]["bytes"] ELSE <<>>)

\* s with a space inserted after every newline
RECURSIVE SpaceAfterNewline(_)
SpaceAfterNewline(s) ==
    IF s = <<>> THEN <<>>
    ELSE (IF Head(s) = "\n" THEN <<"\n", " ">> ELSE <<Head(s)>>)
         \o SpaceAfterNewline(Tail(s))

\* one write of text to the live output, without a line end
LiveWrite(text) ==
    IF text = <<>> THEN <<>>
    ELSE << [text |-> text, end |-> <<>>, wrap |-> FALSE, indent |-> <<>>] >>

\* C11 as stated: with tracing disabled the step that consumes a chunk writes
\* the chunk's decoded text itself to the live output, and a step that
\* consumes any other event prints nothing; with tracing enabled a step that
\* consumes a chunk prints nothing.
C11_Original ==
    [][ \A ev \in StreamEvents :
          Consumes(ev) =>
            /\ (~enableTrace /\ IsChunkEvent(ev) =>
                  stdout' = stdout \o LiveWrite(ChunkTextOf(ev)))
            /\ (~enableTrace /\ ~IsChunkEvent(ev) => stdout' = stdout)
            /\ (enableTrace /\ IsChunkEvent(ev) => stdout' = stdout) ]_vars

\* C11 amended: with tracing disabled the step that consumes a chunk writes
\* the chunk's decoded text with a space inserted after every newline (and
\* nothing for an empty text) to the live output, before the next event is
\* read, and a step that consumes any other event prints nothing; with
\* tracing enabled no step before the end of the stream, and no handler,
\* prints chunk text.
C11_LiveOutput ==
    [][ /\ \A ev \in StreamEvents :
             Consumes(ev) =>
               /\ (~enableTrace /\ IsChunkEvent(ev) =>
                     stdout' = stdout \o LiveWrite(SpaceAfterNewline(ChunkTextOf(ev))))
               /\ (~enableTrace /\ ~IsChunkEvent(ev) => stdout' = stdout)
               /\ (enableTrace /\ IsChunkEvent(ev) => stdout' = stdout)
        /\ (pc = "except" => stdout' = stdout) ]_vars

\* tracing disabled: "Hi", a trace event, then U+00E9 and a newline, shown in
\* that order as the last two writes
C11_Witness ==
    /\ pc = "loop"
    /\ ~enableTrace
    /\ Len(consumed) = 3
    /\ consumed[1] = [chunk |-> [bytes |-> <<72, 105>>]]
    /\ IsTraceOnlyEvent(consumed[2])
    /\ consumed[3] = [chunk |-> [bytes |-> <<195, 169, 10>>]]
    /\ Len(stdout) >= 2
    /\ stdout[Len(stdout) - 1].text = <<"H", "i">>
    /\ stdout[Len(stdout)].text = <<"U+00E9", "\n", " ">>
    /\ stdout[Len(stdout)].end = <<>>

====
